---- MODULE Spec2Model ----
(***************************************************************************)
(* Model of the tournament tracker (src/opgg_tracker.py): the rank model,  *)
(* the identity parser, the response parser, the per-player region lookup  *)
(* and the team aggregation of main.                                       *)
(*                                                                         *)
(* Python strings are sequences of one-character strings, so that upper(), *)
(* lower(), strip(), split() and the substring tests are computed and not  *)
(* assumed.                                                                *)
(***************************************************************************)
EXTENDS Integers, Sequences, FiniteSets, TLC

VARIABLES
    pc,        \* position of the run: a pure call ("call"/"ret") or a step of main
    arg,       \* arguments of the pure function under check
    ret,       \* its return value
    teams,     \* main: the list of Team objects
    world,     \* the remote lookup service's behaviour during this run
    ti,        \* main: index of the team of the outer loop
    pi,        \* main: index of the player of the inner loop
    fp_name,   \* fetch_player: the parsed game name (name)
    fp_tag,    \* fetch_player: the parsed tag (tag)
    regions,   \* fetch_player: the region search order
    ri,        \* fetch_player: index of the region of the lookup loop
    queried,   \* the lookups made for the current player: region and response
    calls,     \* the number of fetch_player calls made so far
    written    \* write_teams: what was written for each team so far

purevars == <<pc, arg, ret>>

mainvars == <<teams, world, ti, pi, fp_name, fp_tag, regions, ri, queried, calls, written>>

vars == <<pc, arg, ret, teams, world, ti, pi, fp_name, fp_tag, regions, ri, queried, calls,
          written>>

(***************************************************************************)
(* Strings                                                                 *)
(***************************************************************************)
Lowers == <<"a","b","c","d","e","f","g","h","i","j","k","l","m",
            "n","o","p","q","r","s","t","u","v","w","x","y","z">>
Uppers == <<"A","B","C","D","E","F","G","H","I","J","K","L","M",
            "N","O","P","Q","R","S","T","U","V","W","X","Y","Z">>

\* the characters of the alphabet the model's strings are written in
Chars == {Lowers[i] : i \in DOMAIN Lowers} \cup {Uppers[i] : i \in DOMAIN Uppers}
             \cup {"0", "1", "2", "3", "4", "5", "6", "7", "8", "9"}
             \cup {" ", "\t", "\n", "\r", "#", "(", ")", "-", "_", ".", "~", "/",
                   ":", "%", "+", "?", "=", ",", "\""}

\* str.upper() on one character
UpperChar == [c \in Chars |->
    IF \E i \in DOMAIN Lowers : Lowers[i] = c
    THEN Uppers[CHOOSE i \in DOMAIN Lowers : Lowers[i] = c]
    ELSE c]

\* str.lower() on one character
LowerChar == [c \in Chars |->
    IF \E i \in DOMAIN Uppers : Uppers[i] = c
    THEN Lowers[CHOOSE i \in DOMAIN Uppers : Uppers[i] = c]
    ELSE c]

\* str.upper()
Upper(s) == [i \in DOMAIN s |-> UpperChar[s[i]]]

\* str.lower()
Lower(s) == [i \in DOMAIN s |-> LowerChar[s[i]]]

\* the characters str.strip() and str.split() treat as white space
IsSpace(c) == c \in {" ", "\t", "\n", "\r"}

\* str.split(): the maximal runs of non-space characters, in order
RECURSIVE SplitFrom(_, _, _)
SplitFrom(s, i, word) ==
    IF i > Len(s)
    THEN IF word = <<>> THEN <<>> ELSE <<word>>
    ELSE IF IsSpace(s[i])
         THEN IF word = <<>>
              THEN SplitFrom(s, i + 1, <<>>)
              ELSE <<word>> \o SplitFrom(s, i + 1, <<>>)
         ELSE SplitFrom(s, i + 1, Append(word, s[i]))

Split(s) == SplitFrom(s, 1, <<>>)

\* the position of x in list l (list.index), x in l
IndexOf(l, x) == CHOOSE i \in DOMAIN l : l[i] = x /\ \A j \in 1..(i - 1) : l[j] # x

\* x in l, for a list l
InList(l, x) == \E i \in DOMAIN l : l[i] = x

\* str.strip(): leading white space removed
RECURSIVE LStrip(_)
LStrip(s) == IF s # <<>> /\ IsSpace(Head(s)) THEN LStrip(Tail(s)) ELSE s

\* str.strip(): trailing white space removed
RECURSIVE RStrip(_)
RStrip(s) ==
    IF s # <<>> /\ IsSpace(s[Len(s)]) THEN RStrip(SubSeq(s, 1, Len(s) - 1)) ELSE s

\* str.strip()
Strip(s) == RStrip(LStrip(s))

\* the positions at which sub occurs in s
Occurrences(s, sub) ==
    {i \in 1..(Len(s) - Len(sub) + 1) : SubSeq(s, i, i + Len(sub) - 1) = sub}

\* sub in s
Contains(s, sub) == Occurrences(s, sub) # {}

\* the least element of a non-empty set of integers
Least(S) == CHOOSE i \in S : \A j \in S : i <= j

\* the greatest element of a non-empty set of integers
Greatest(S) == CHOOSE i \in S : \A j \in S : i >= j

\* s.split(sep, 1): cut at the first occurrence of sep, or s alone
SplitOnce(s, sep) ==
    IF Contains(s, sep)
    THEN LET i == Least(Occurrences(s, sep))
         IN  <<SubSeq(s, 1, i - 1), SubSeq(s, i + Len(sep), Len(s))>>
    ELSE <<s>>

(***************************************************************************)
(* Rank model                                                              *)
(***************************************************************************)
IRON        == <<"I","R","O","N">>
BRONZE      == <<"B","R","O","N","Z","E">>
SILVER      == <<"S","I","L","V","E","R">>
GOLD        == <<"G","O","L","D">>
PLATINUM    == <<"P","L","A","T","I","N","U","M">>
EMERALD     == <<"E","M","E","R","A","L","D">>
DIAMOND     == <<"D","I","A","M","O","N","D">>
MASTER      == <<"M","A","S","T","E","R">>
GRANDMASTER == <<"G","R","A","N","D","M","A","S","T","E","R">>
CHALLENGER  == <<"C","H","A","L","L","E","N","G","E","R">>
UNRANKED    == <<"U","N","R","A","N","K","E","D">>
NULL        == <<"N","U","L","L">>
\* a tier name the tables do not hold
WOOD        == <<"W","O","O","D">>

DivI   == <<"I">>
DivII  == <<"I","I">>
DivIII == <<"I","I","I">>
DivIV  == <<"I","V">>

TIER_ORDER == <<IRON, BRONZE, SILVER, GOLD, PLATINUM, EMERALD,
                DIAMOND, MASTER, GRANDMASTER, CHALLENGER>>

ApexTiers == <<MASTER, GRANDMASTER, CHALLENGER>>

\* DIV_ORDER.get(d, 0)
DIV_ORDER_get(d) ==
    CASE d = DivIV  \/ d = <<"4">> -> 0
      [] d = DivIII \/ d = <<"3">> -> 1
      [] d = DivII  \/ d = <<"2">> -> 2
      [] d = DivI   \/ d = <<"1">> -> 3
      [] OTHER -> 0

\* LP_TABLE[tier] for a non-apex tier: the dict's .get(division, 0)
LP_TABLE_div(tier, division) ==
    LET row == CASE tier = IRON     -> <<0, 100, 200, 300>>
                 [] tier = BRONZE   -> <<400, 500, 600, 700>>
                 [] tier = SILVER   -> <<800, 900, 1000, 1100>>
                 [] tier = GOLD     -> <<1200, 1300, 1400, 1500>>
                 [] tier = PLATINUM -> <<1600, 1700, 1800, 1900>>
                 [] tier = EMERALD  -> <<2000, 2100, 2200, 2300>>
                 [] tier = DIAMOND  -> <<2400, 2500, 2600, 2700>>
    IN  CASE division = DivIV  -> row[1]
          [] division = DivIII -> row[2]
          [] division = DivII  -> row[3]
          [] division = DivI   -> row[4]
          [] OTHER -> 0

\* the apex bases with GRANDMASTER set below MASTER's reach
LP_TABLE_apex_close(tier) ==
    CASE tier = MASTER      -> 2800
      [] tier = GRANDMASTER -> 2900
      [] tier = CHALLENGER  -> 3300

\* LP_TABLE[tier] for an apex tier
LP_TABLE_apex(tier) ==
    CASE tier = MASTER      -> 2800
      [] tier = GRANDMASTER -> 3000
      [] tier = CHALLENGER  -> 3300

\* isinstance(LP_TABLE.get(tier), dict)
LP_TABLE_is_dict(tier) ==
    tier \in {IRON, BRONZE, SILVER, GOLD, PLATINUM, EMERALD, DIAMOND}

format_rank(tier, division) ==
    IF tier = <<>> \/ Upper(tier) \in {UNRANKED, NULL}
    THEN UNRANKED
    ELSE IF InList(ApexTiers, Upper(tier))
         THEN Upper(tier)
         ELSE Upper(tier) \o <<" ">> \o division

\* calculate_lp with the league points of an apex tier dropped
calculate_lp_apex_base_only(tier, division, lp) ==
    IF tier = <<>> \/ tier = UNRANKED
    THEN 0
    ELSE IF InList(ApexTiers, Upper(tier))
         THEN LP_TABLE_apex(Upper(tier))
         ELSE IF LP_TABLE_is_dict(Upper(tier))
              THEN LP_TABLE_div(Upper(tier), division) + lp
              ELSE 0

calculate_lp(tier, division, lp) ==
    IF tier = <<>> \/ tier = UNRANKED
    THEN 0
    ELSE IF InList(ApexTiers, Upper(tier))
         THEN LP_TABLE_apex(Upper(tier)) + lp
         ELSE IF LP_TABLE_is_dict(Upper(tier))
              THEN LP_TABLE_div(Upper(tier), division) + lp
              ELSE 0

\* compare_ranks with the division comparison left out
compare_ranks_tier_only(rank1, rank2) ==
    IF rank1 = <<>> \/ rank1 = UNRANKED
    THEN IF rank2 # <<>> /\ rank2 # UNRANKED THEN -1 ELSE 0
    ELSE IF rank2 = <<>> \/ rank2 = UNRANKED
    THEN 1
    ELSE LET t1  == Split(Upper(rank1))[1]
             t2  == Split(Upper(rank2))[1]
             ti1 == IF InList(TIER_ORDER, t1) THEN IndexOf(TIER_ORDER, t1) - 1 ELSE -1
             ti2 == IF InList(TIER_ORDER, t2) THEN IndexOf(TIER_ORDER, t2) - 1 ELSE -1
         IN  IF ti1 # ti2 THEN (IF ti1 > ti2 THEN 1 ELSE -1) ELSE 0

compare_ranks(rank1, rank2) ==
    IF rank1 = <<>> \/ rank1 = UNRANKED
    THEN IF rank2 # <<>> /\ rank2 # UNRANKED THEN -1 ELSE 0
    ELSE IF rank2 = <<>> \/ rank2 = UNRANKED
    THEN 1
    ELSE LET p1  == Split(Upper(rank1))
             p2  == Split(Upper(rank2))
             t1  == p1[1]
             t2  == p2[1]
             d1  == IF Len(p1) > 1 THEN p1[2] ELSE DivI
             d2  == IF Len(p2) > 1 THEN p2[2] ELSE DivI
             ti1 == IF InList(TIER_ORDER, t1) THEN IndexOf(TIER_ORDER, t1) - 1 ELSE -1
             ti2 == IF InList(TIER_ORDER, t2) THEN IndexOf(TIER_ORDER, t2) - 1 ELSE -1
             di1 == DIV_ORDER_get(d1)
             di2 == DIV_ORDER_get(d2)
         IN  IF ti1 # ti2
             THEN IF ti1 > ti2 THEN 1 ELSE -1
             ELSE IF di1 > di2 THEN 1 ELSE IF di1 < di2 THEN -1 ELSE 0

\* fetch_player's total of a rank string: calculate_lp(parts[0], parts[1] or "I", lp)
rank_total_lp(rank, lp) ==
    LET parts == Split(rank)
    IN  calculate_lp(parts[1], IF Len(parts) > 1 THEN parts[2] ELSE DivI, lp)

(***************************************************************************)
(* Identity parser                                                         *)
(***************************************************************************)
\* re.search(r'\s*\(([^)]+)\)\s*$', riot_id): the string must end, white space
\* apart, with ")" closing a non-empty group without ")"; the match is the
\* leftmost one, so the group opens at the first "(" after the last earlier
\* ")" and the match starts at the white space before it.
\* Result: <<start, group 1>>, or <<>> when there is no match.
paren_match(riot_id) ==
    LET body  == RStrip(riot_id)
        close == Len(body)
        opens == {p \in 1..(close - 2) :
                     /\ body[p] = "("
                     /\ \A q \in (p + 1)..(close - 1) : body[q] # ")"}
    IN  IF close >= 3 /\ body[close] = ")" /\ opens # {}
        THEN LET p     == Least(opens)
                 start == Least({i \in 1..p : \A q \in i..(p - 1) : IsSpace(body[q])})
             IN  <<start, SubSeq(body, p + 1, close - 1)>>
        ELSE <<>>

\* parse_riot_id: the "(region)" suffix taken off, then the split on " #" when
\* the identifier has one, else on "#", at its first occurrence
parse_riot_id(riot_id) ==
    LET stripped == Strip(riot_id)
        m        == paren_match(stripped)
        hint     == IF m # <<>> THEN Lower(Strip(m[2])) ELSE <<>>
        id       == IF m # <<>> THEN Strip(SubSeq(stripped, 1, m[1] - 1)) ELSE stripped
        sep      == IF Contains(id, <<" ", "#">>) THEN <<" ", "#">>
                    ELSE IF Contains(id, <<"#">>) THEN <<"#">>
                    ELSE <<>>
        parts    == SplitOnce(id, sep)
    IN  IF sep # <<>>
        THEN [name |-> Strip(parts[1]),
              tag  |-> IF Len(parts) > 1 THEN Strip(parts[2]) ELSE <<>>,
              region_hint |-> hint]
        ELSE [name |-> id, tag |-> <<>>, region_hint |-> hint]

\* the characters urllib.parse.quote leaves as they are: letters, digits,
\* "_.-~" and the default safe "/"
QuoteSafe ==
    {Lowers[i] : i \in DOMAIN Lowers} \cup {Uppers[i] : i \in DOMAIN Uppers}
    \cup {"0", "1", "2", "3", "4", "5", "6", "7", "8", "9", "_", ".", "-", "~", "/"}

\* the two hexadecimal digits of a character's code, for the other characters
\* of the alphabet
HexCode ==
    [c \in Chars \ QuoteSafe |->
        CASE c = " "  -> <<"2","0">>
          [] c = "\t" -> <<"0","9">>
          [] c = "\n" -> <<"0","A">>
          [] c = "\r" -> <<"0","D">>
          [] c = "\"" -> <<"2","2">>
          [] c = "#"  -> <<"2","3">>
          [] c = "%"  -> <<"2","5">>
          [] c = "("  -> <<"2","8">>
          [] c = ")"  -> <<"2","9">>
          [] c = "+"  -> <<"2","B">>
          [] c = ","  -> <<"2","C">>
          [] c = ":"  -> <<"3","A">>
          [] c = "="  -> <<"3","D">>
          [] c = "?"  -> <<"3","F">>]

\* urllib.parse.quote
RECURSIVE quote(_)
quote(s) ==
    IF s = <<>>
    THEN <<>>
    ELSE (IF Head(s) \in QuoteSafe THEN <<Head(s)>> ELSE <<"%">> \o HexCode[Head(s)])
         \o quote(Tail(s))

\* urllib.parse.unquote over the escapes of the alphabet's characters (either
\* case of the hexadecimal digits); "%" not followed by one of them stays
RECURSIVE unquote(_)
unquote(s) ==
    IF s = <<>>
    THEN <<>>
    ELSE LET coded == {c \in Chars \ QuoteSafe :
                          Len(s) >= 3 /\ Upper(SubSeq(s, 2, 3)) = HexCode[c]}
         IN  IF Head(s) = "%" /\ coded # {}
             THEN <<CHOOSE c \in coded : TRUE>> \o unquote(SubSeq(s, 4, Len(s)))
             ELSE <<Head(s)>> \o unquote(Tail(s))

\* str.replace("+", " ")
plus_to_space(s) == [i \in DOMAIN s |-> IF s[i] = "+" THEN " " ELSE s[i]]

OPGG_PATH == <<"o","p",".","g","g","/","l","o","l","/","s","u","m","m","o","n","e","r","s","/">>

OPGG_HOST == <<"o","p",".","g","g","/">>

HTTPS == <<"h","t","t","p","s",":","/","/">>

\* the longest run of characters of the set class in s from position i on
RECURSIVE RunFrom(_, _, _)
RunFrom(s, i, class) ==
    IF i <= Len(s) /\ s[i] \in class THEN <<s[i]>> \o RunFrom(s, i + 1, class) ELSE <<>>

\* re.search(r'op\.gg/lol/summoners/([a-z]+)/([^/?#]+)-([^/?#]+)', url) started
\* at position i: the region is the run of lower-case letters, which "/" must
\* follow; the greedy second group ends at the last "-" of the path segment
\* that leaves the third group a character.  <<>> when there is no match at i.
opgg_url_match_at(url, i) ==
    LET r0      == i + Len(OPGG_PATH)
        region  == RunFrom(url, r0, {Lowers[k] : k \in DOMAIN Lowers})
        s0      == r0 + Len(region) + 1
        segment == RunFrom(url, s0, Chars \ {"/", "?", "#"})
        dashes  == {k \in 2..(Len(segment) - 1) : segment[k] = "-"}
    IN  IF /\ r0 - 1 <= Len(url)
           /\ SubSeq(url, i, r0 - 1) = OPGG_PATH
           /\ region # <<>>
           /\ s0 - 1 <= Len(url) /\ url[s0 - 1] = "/"
           /\ dashes # {}
        THEN <<region,
               SubSeq(segment, 1, Greatest(dashes) - 1),
               SubSeq(segment, Greatest(dashes) + 1, Len(segment))>>
        ELSE <<>>

parse_opgg_url(url) ==
    LET starts == {i \in 1..Len(url) : opgg_url_match_at(url, i) # <<>>}
    IN  IF starts # {}
        THEN LET m == opgg_url_match_at(url, Least(starts))
             IN  [name |-> unquote(plus_to_space(m[2])),
                  tag  |-> unquote(plus_to_space(m[3])),
                  region_hint |-> m[1]]
        ELSE [name |-> <<>>, tag |-> <<>>, region_hint |-> <<>>]

get_opgg_url(name, tag, region) ==
    HTTPS \o OPGG_PATH \o region \o <<"/">> \o quote(name) \o <<"-">> \o quote(tag)

(***************************************************************************)
(* Region search order of fetch_player                                     *)
(***************************************************************************)
eune == <<"e","u","n","e">>
euw  == <<"e","u","w">>
tr   == <<"t","r">>
ru   == <<"r","u">>
na   == <<"n","a">>
kr   == <<"k","r">>

REGIONS == <<eune, euw, tr, ru, na, kr>>

\* REGION_ALIASES.get(region_hint, region_hint)
REGION_ALIASES_get(region_hint) ==
    CASE region_hint = <<"e","u","w","e","s","t">> -> euw
      [] region_hint = <<"e","u","e","a","s","t">> -> eune
      [] region_hint = <<"e","u","w","e">>         -> euw
      [] region_hint = <<"w","e","s","t">>         -> euw
      [] region_hint = <<"e","a","s","t">>         -> eune
      [] OTHER -> region_hint

\* list(dict.fromkeys(regions)): the first occurrence of every element, in order
RECURSIVE remove_duplicates(_)
remove_duplicates(l) ==
    IF l = <<>>
    THEN <<>>
    ELSE LET front == remove_duplicates(SubSeq(l, 1, Len(l) - 1))
         IN  IF InList(front, l[Len(l)]) THEN front ELSE Append(front, l[Len(l)])

\* the search order without the removal of duplicates
region_search_order_with_duplicates(region_hint, tag) ==
    LET hint == IF region_hint # <<>> THEN REGION_ALIASES_get(region_hint) ELSE region_hint
    IN  (IF hint # <<>> THEN <<hint>> ELSE <<>>)
        \o (IF InList(REGIONS, Lower(tag)) THEN <<Lower(tag)>> ELSE <<>>)
        \o REGIONS

\* fetch_player: normalize the hint, then hint, tag, defaults, duplicates removed
region_search_order(region_hint, tag) ==
    LET hint == IF region_hint # <<>> THEN REGION_ALIASES_get(region_hint) ELSE region_hint
    IN  remove_duplicates(
            (IF hint # <<>> THEN <<hint>> ELSE <<>>)
            \o (IF InList(REGIONS, Lower(tag)) THEN <<Lower(tag)>> ELSE <<>>)
            \o REGIONS)

(***************************************************************************)
(* Response parser.  A response text is modelled by the records the three  *)
(* regular expressions of parse_opgg_response can match in it, in text     *)
(* order, and the other words it holds; the division and the league points *)
(* of a record are the integers the (\d+) groups are converted to.         *)
(***************************************************************************)
SOLORANKED == <<"S","O","L","O","R","A","N","K","E","D">>
FLEXRANKED == <<"F","L","E","X","R","A","N","K","E","D">>

\* LeagueStat("<queue>",TierInfo("<tier>",<div>,<lp>))
LeagueStat(queue, tier, div, lp) ==
    [kind |-> "LeagueStat", queue |-> queue, tier |-> tier, div |-> div, lp |-> lp,
     chars |-> <<>>]

\* RankEntrie1("SOLORANKED",RankInfo("<tier>",<div>,<lp>))
RankEntrie1(tier, div, lp) ==
    [kind |-> "RankEntrie1", queue |-> SOLORANKED, tier |-> tier, div |-> div,
     lp |-> lp, chars |-> <<>>]

\* PreviousSeason(<season>,TierInfo1("<tier>",<div>))
PreviousSeason(tier, div) ==
    [kind |-> "PreviousSeason", queue |-> <<>>, tier |-> tier, div |-> div,
     lp |-> 0, chars |-> <<>>]

\* any other text of the response
Words(chars) ==
    [kind |-> "words", queue |-> <<>>, tier |-> <<>>, div |-> 0, lp |-> 0,
     chars |-> chars]

\* {1: "I", 2: "II", 3: "III", 4: "IV"}.get(div, "IV")
div_roman(div) ==
    CASE div = 1 -> DivI
      [] div = 2 -> DivII
      [] div = 3 -> DivIII
      [] div = 4 -> DivIV
      [] OTHER   -> DivIV

\* re.search(r'LeagueStat\("SOLORANKED",TierInfo\(...'): the first match, or none
solo_matches(text) ==
    SelectSeq(text, LAMBDA t : t.kind = "LeagueStat" /\ t.queue = SOLORANKED)

\* re.findall(r'RankEntrie1\(...')
top_tier_matches(text) == SelectSeq(text, LAMBDA t : t.kind = "RankEntrie1")

\* re.findall(r'PreviousSeason\(...')
previous_season_matches(text) == SelectSeq(text, LAMBDA t : t.kind = "PreviousSeason")

\* the peak loops' body with the comparison turned round
peak_step_reversed(rank, best) ==
    IF compare_ranks(rank, best) < 0 THEN rank ELSE best

\* the body of both peak loops: if compare_ranks(rank, best) > 0: best = rank
peak_step(rank, best) ==
    IF compare_ranks(rank, best) > 0 THEN rank ELSE best

\* one peak loop over the matches of one pattern
RECURSIVE peak_loop(_, _)
peak_loop(matches, best) ==
    IF matches = <<>>
    THEN best
    ELSE peak_loop(Tail(matches),
                   peak_step(format_rank(Head(matches).tier, div_roman(Head(matches).div)),
                             best))

parse_opgg_response(text) ==
    LET found   == solo_matches(text)
        current == IF found # <<>>
                   THEN format_rank(found[1].tier, div_roman(found[1].div))
                   ELSE UNRANKED
        lp      == IF found # <<>> THEN found[1].lp ELSE 0
        best0   == IF current # UNRANKED THEN current ELSE UNRANKED
        best1   == peak_loop(top_tier_matches(text), best0)
        best2   == peak_loop(previous_season_matches(text), best1)
    IN  [current_rank |-> current, current_lp |-> lp, peak_rank |-> best2]

(***************************************************************************)
(* Lookup service and fetch_player                                         *)
(***************************************************************************)
\* the decimal digits of a natural number
RECURSIVE Decimal(_)
Decimal(n) ==
    LET digit == <<"0", "1", "2", "3", "4", "5", "6", "7", "8", "9">>[(n % 10) + 1]
    IN  IF n < 10 THEN <<digit>> ELSE Decimal(n \div 10) \o <<digit>>

\* the characters of one record or run of words of a response text
TokenChars(t) ==
    CASE t.kind = "LeagueStat" ->
             <<"L","e","a","g","u","e","S","t","a","t","(","\"">> \o t.queue
             \o <<"\"",",","T","i","e","r","I","n","f","o","(","\"">> \o t.tier
             \o <<"\"", ",">> \o Decimal(t.div) \o <<",">> \o Decimal(t.lp) \o <<")", ")">>
      [] t.kind = "RankEntrie1" ->
             <<"R","a","n","k","E","n","t","r","i","e","1","(","\"">> \o t.queue
             \o <<"\"",",","R","a","n","k","I","n","f","o","(","\"">> \o t.tier
             \o <<"\"", ",">> \o Decimal(t.div) \o <<",">> \o Decimal(t.lp) \o <<")", ")">>
      [] t.kind = "PreviousSeason" ->
             <<"P","r","e","v","i","o","u","s","S","e","a","s","o","n","(","3","1",",","T","i","e","r","I","n","f","o","1","(","\"">> \o t.tier
             \o <<"\"", ",">> \o Decimal(t.div) \o <<")", ")">>
      [] OTHER -> t.chars

\* the characters of a response text
RECURSIVE TextChars(_)
TextChars(text) ==
    IF text = <<>> THEN <<>> ELSE TokenChars(Head(text)) \o TextChars(Tail(text))

\* what requests.post and r.json() can give: an exception, a status code, and
\* the "content" list of the result (texts)
HttpOutcome(raised, status_code, content) ==
    [raised |-> raised, status_code |-> status_code, content |-> content]

\* fetch_from_opgg returning None
None == [ok |-> FALSE, text |-> <<>>]

\* fetch_from_opgg after requests.post: None on an exception, a status other
\* than 200 or an empty content list, else {"text": content[0]["text"]}
fetch_from_opgg(outcome) ==
    IF outcome.raised
    THEN None
    ELSE IF outcome.status_code # 200
         THEN None
         ELSE IF outcome.content # <<>>
              THEN [ok |-> TRUE, text |-> outcome.content[1]]
              ELSE None

\* name.lower() not in resp["text"].lower()
name_not_in_text(player_name, text) ==
    ~Contains(Lower(TextChars(text)), Lower(player_name))

\* the lookup loop's second "continue" taken only when the name is missing,
\* whatever was parsed
is_miss_by_name_only(data, player_name, text) == name_not_in_text(player_name, text)

\* the lookup loop's second "continue": nothing ranked was parsed and the
\* name is not in the text
is_miss(data, player_name, text) ==
    /\ data.current_rank = UNRANKED /\ data.peak_rank = UNRANKED
    /\ name_not_in_text(player_name, text)

\* "continue" written as "break": the loop is left
break_loop(i, n) == n + 1

\* "continue": the loop goes to the next region
continue_loop(i, n) == i + 1

\* Player(...) as read_teams makes it, with the dataclass defaults
Player(tournament_account, main_account, role) ==
    [tournament_account |-> tournament_account,
     main_account  |-> main_account,
     role          |-> role,
     current_rank  |-> UNRANKED,
     current_lp    |-> 0,
     peak_rank     |-> UNRANKED,
     total_lp      |-> 0,
     opgg_tournament |-> <<>>,
     opgg_main     |-> <<>>,
     region        |-> <<>>]

\* fetch_player, the tournament account: cleaned and linked when it parses
with_tournament_account(player, region) ==
    LET is_url == Contains(player.tournament_account, OPGG_HOST)
        t      == IF is_url
                  THEN parse_opgg_url(player.tournament_account)
                  ELSE parse_riot_id(player.tournament_account)
        t_region == IF is_url /\ t.region_hint # <<>> THEN t.region_hint ELSE region
    IN  IF t.name # <<>> /\ t.tag # <<>>
        THEN [player EXCEPT
                 !.tournament_account = t.name \o <<"#">> \o t.tag,
                 !.opgg_tournament = get_opgg_url(t.name, t.tag, t_region)]
        ELSE player

\* a hit with the total taken from the better of the two ranks, the peak
populate_from_peak(player, data, region, player_name, player_tag) ==
    with_tournament_account(
        [player EXCEPT
            !.current_rank = data.current_rank,
            !.current_lp   = data.current_lp,
            !.peak_rank    = data.peak_rank,
            !.region       = region,
            !.opgg_main    = get_opgg_url(player_name, player_tag, region),
            !.total_lp     = IF data.peak_rank # UNRANKED
                             THEN rank_total_lp(data.peak_rank, data.current_lp)
                             ELSE @],
        region)

\* fetch_player, a hit: the player takes the parsed data and the region
populate(player, data, region, player_name, player_tag) ==
    with_tournament_account(
        [player EXCEPT
            !.current_rank = data.current_rank,
            !.current_lp   = data.current_lp,
            !.peak_rank    = data.peak_rank,
            !.region       = region,
            !.opgg_main    = get_opgg_url(player_name, player_tag, region),
            !.total_lp     = IF data.current_rank # UNRANKED
                             THEN rank_total_lp(data.current_rank, data.current_lp)
                             ELSE @],
        region)

(***************************************************************************)
(* Aggregation and publication                                             *)
(***************************************************************************)
\* Team(...) as read_teams makes it; row is the place of its source row
Team(row, team_name, players) ==
    [row |-> row, name |-> team_name, players |-> players,
     regular_score |-> 0, total_score |-> 0]

\* read_teams: one team per data row, 5 main players and 2 fill players
read_teams(rows) ==
    [r \in DOMAIN rows |->
        Team(r, rows[r].name,
             [i \in 1..7 |->
                 Player(rows[r].accounts[i].tournament_account,
                        rows[r].accounts[i].main_account,
                        IF i <= 5 THEN rows[r].accounts[i].role ELSE "FILL")])]

\* sum(p.total_lp for p in players)
RECURSIVE sum_total_lp(_)
sum_total_lp(players) ==
    IF players = <<>> THEN 0 ELSE Head(players).total_lp + sum_total_lp(Tail(players))

\* the regular score taken over all the players
regular_score_of_all(players) == sum_total_lp(players)

\* sum(p.total_lp for p in team.players[:5])
regular_score_of(players) ==
    sum_total_lp(SubSeq(players, 1, IF Len(players) < 5 THEN Len(players) ELSE 5))

\* sum(p.total_lp for p in team.players)
total_score_of(players) == sum_total_lp(players)

\* one team put into a list sorted by descending regular_score, after the
\* teams that score as much: the order list.sort(reverse=True) keeps
RECURSIVE insert_team(_, _)
insert_team(sorted, team) ==
    IF sorted = <<>>
    THEN <<team>>
    ELSE IF Head(sorted).regular_score >= team.regular_score
         THEN <<Head(sorted)>> \o insert_team(Tail(sorted), team)
         ELSE <<team>> \o sorted

RECURSIVE sort_from(_, _)
sort_from(sorted, rest) ==
    IF rest = <<>> THEN sorted ELSE sort_from(insert_team(sorted, Head(rest)), Tail(rest))

\* an ascending stable sort turned round: equal scores end in reverse order
RECURSIVE reversed(_)
reversed(l) == IF l = <<>> THEN <<>> ELSE Append(reversed(Tail(l)), Head(l))

sort_teams_ascending_reversed(team_list) == sort_from(<<>>, reversed(team_list))

\* teams.sort(key=lambda t: t.regular_score, reverse=True)
sort_teams(team_list) == sort_from(<<>>, team_list)

(***************************************************************************)
(* Inputs of the rank model's functions                                    *)
(***************************************************************************)
Divisions == {DivI, DivII, DivIII, DivIV}

TierNames == {TIER_ORDER[i] : i \in DOMAIN TIER_ORDER}

\* every string format_rank produces from a known tier or no tier
FormattedRanks == {format_rank(t, d) : t \in TierNames \cup {UNRANKED}, d \in Divisions}

ConcreteRanks == FormattedRanks \ {UNRANKED}

\* tier arguments: the ten tiers, no tier, and names the table does not hold
TierArgs == TierNames \cup {<<>>, UNRANKED, Lower(UNRANKED), WOOD,
                            Lower(GOLD), Lower(MASTER)}

DivisionArgs == Divisions \cup {<<>>}

\* league points at the edges of a division and around the gaps between apex bases
LpSamples == {0, 1, 99, 100, 200, 201, 300, 301}

CompareArgs ==
    [fn : {"compare_ranks"}, a : FormattedRanks, b : FormattedRanks, c : FormattedRanks]

LpArgs ==
    [fn : {"calculate_lp"}, tier : TierArgs, division : DivisionArgs, lp : LpSamples]

TotalArgs ==
    [fn : {"rank_total_lp"}, r1 : ConcreteRanks, lp1 : LpSamples,
     r2 : ConcreteRanks, lp2 : LpSamples]

\* the records and words the responses of the model are made of
TokenSamples ==
    {LeagueStat(SOLORANKED, SILVER, 2, 38),
     LeagueStat(SOLORANKED, MASTER, 1, 250),
     LeagueStat(FLEXRANKED, CHALLENGER, 1, 900),
     RankEntrie1(GOLD, 4, 12),
     RankEntrie1(SILVER, 1, 75),
     PreviousSeason(GOLD, 3),
     PreviousSeason(SILVER, 1),
     PreviousSeason(GRANDMASTER, 1),
     PreviousSeason(IRON, 0),
     PreviousSeason(NULL, 0),
     PreviousSeason(WOOD, 2),
     Words(<<"A","l">>)}

MaxTokens == 3

Texts == UNION {[1..n -> TokenSamples] : n \in 0..MaxTokens}

ParseArgs == [fn : {"parse_opgg_response"}, text : Texts]

\* the variables of main while a single function is under check
Idle ==
    /\ teams = <<>> /\ world = "none" /\ ti = 0 /\ pi = 0
    /\ fp_name = <<>> /\ fp_tag = <<>> /\ regions = <<>> /\ ri = 0
    /\ queried = <<>> /\ calls = 0 /\ written = <<>>

\* identifiers: every string of at most MaxIdLen characters over a letter, the
\* separator and the space, two documented forms and a second " #" after "#"
IdAlphabet == {"A", "#", " "}

MaxIdLen == 5

IdBodies ==
    UNION {[1..n -> IdAlphabet] : n \in 0..MaxIdLen}
    \cup {<<"F","a","k","e","r","#","K","R","1">>,
          <<"S","p","o","o","n","#","l","o","h">>,
          <<"A","#","B"," ","#","C">>}

\* trailing region hints, none included
IdSuffixes == {<<>>, <<" ","(","k","r",")">>, <<"(","E","u","W","e","s","t",")"," ">>}

RiotArgs == [fn : {"parse_riot_id"}, body : IdBodies, suffix : IdSuffixes]

\* region hints as the identity parsers return them (lower case), and tags
HintArgs ==
    {<<>>, <<"e","u","w","e","s","t">>, <<"e","u","e","a","s","t">>, <<"e","u","w","e">>,
     <<"w","e","s","t">>, <<"e","a","s","t">>, <<"s","m","u","r","f">>, <<"b","r">>}
    \cup {REGIONS[i] : i \in DOMAIN REGIONS}

TagArgs ==
    {<<"K","R","1">>, <<"K","R">>, kr, <<"E","U","W">>, <<"E","u","n","e">>, eune,
     <<"B","1">>, tr, <<"N","A">>, ru}

RegionArgs == [fn : {"region_search_order"}, region_hint : HintArgs, tag : TagArgs]

InitIdentity == pc = "call" /\ arg \in RiotArgs \cup RegionArgs /\ ret = <<>> /\ Idle

CallParseRiotId ==
    /\ pc = "call"
    /\ arg.fn = "parse_riot_id"
    /\ ret' = parse_riot_id(arg.body \o arg.suffix)
    /\ pc' = "ret"
    /\ UNCHANGED <<arg, mainvars>>

CallRegionSearchOrder ==
    /\ pc = "call"
    /\ arg.fn = "region_search_order"
    /\ ret' = region_search_order(arg.region_hint, arg.tag)
    /\ pc' = "ret"
    /\ UNCHANGED <<arg, mainvars>>

NextIdentity == CallParseRiotId \/ CallRegionSearchOrder

SpecIdentity == InitIdentity /\ [][NextIdentity]_vars

InitCompare == pc = "call" /\ arg \in CompareArgs /\ ret = <<>> /\ Idle

InitLp == pc = "call" /\ arg \in LpArgs \cup TotalArgs /\ ret = <<>> /\ Idle

CallCompareRanks ==
    /\ pc = "call"
    /\ arg.fn = "compare_ranks"
    /\ ret' = [ab |-> compare_ranks(arg.a, arg.b),
               ba |-> compare_ranks(arg.b, arg.a),
               bc |-> compare_ranks(arg.b, arg.c),
               ac |-> compare_ranks(arg.a, arg.c)]
    /\ pc' = "ret"
    /\ UNCHANGED <<arg, mainvars>>

CallCalculateLp ==
    /\ pc = "call"
    /\ arg.fn = "calculate_lp"
    /\ ret' = calculate_lp(arg.tier, arg.division, arg.lp)
    /\ pc' = "ret"
    /\ UNCHANGED <<arg, mainvars>>

CallRankTotalLp ==
    /\ pc = "call"
    /\ arg.fn = "rank_total_lp"
    /\ ret' = [cmp |-> compare_ranks(arg.r1, arg.r2),
               t1  |-> rank_total_lp(arg.r1, arg.lp1),
               t2  |-> rank_total_lp(arg.r2, arg.lp2)]
    /\ pc' = "ret"
    /\ UNCHANGED <<arg, mainvars>>

InitParse == pc = "call" /\ arg \in ParseArgs /\ ret = <<>> /\ Idle

CallParseOpggResponse ==
    /\ pc = "call"
    /\ arg.fn = "parse_opgg_response"
    /\ ret' = parse_opgg_response(arg.text)
    /\ pc' = "ret"
    /\ UNCHANGED <<arg, mainvars>>

NextParse == CallParseOpggResponse

SpecParse == InitParse /\ [][NextParse]_vars

NextCompare == CallCompareRanks

NextLp == CallCalculateLp \/ CallRankTotalLp

SpecCompare == InitCompare /\ [][NextCompare]_vars

SpecLp == InitLp /\ [][NextLp]_vars

(***************************************************************************)
(* main: the runs of the tracker                                           *)
(***************************************************************************)
\* response texts of the lookup service
TextMiss     == <<Words(<<"n","o"," ","s","u","m","m","o","n","e","r"," ","f","o","u","n","d">>)>>
TextNameOnly == <<Words(<<"S","u","m","m","o","n","e","r","(","A","L"," ","Z",",">>), LeagueStat(FLEXRANKED, SILVER, 3, 10)>>
TextGoldIV   == <<LeagueStat(SOLORANKED, GOLD, 4, 0)>>
TextPlatIV   == <<LeagueStat(SOLORANKED, PLATINUM, 4, 0), PreviousSeason(DIAMOND, 2)>>
TextPeakOnly == <<RankEntrie1(BRONZE, 2, 40), PreviousSeason(SILVER, 1)>>
TextFlexOnly == <<LeagueStat(FLEXRANKED, CHALLENGER, 1, 900)>>

NetworkError  == HttpOutcome(TRUE, 0, <<>>)
ServerError   == HttpOutcome(FALSE, 500, <<>>)
MalformedJson == HttpOutcome(TRUE, 200, <<>>)
EmptyContent  == HttpOutcome(FALSE, 200, <<>>)
Ok(text)      == HttpOutcome(FALSE, 200, <<text>>)

\* what a lookup of any player in any region may give in an open world
OpenOutcomes ==
    {NetworkError, ServerError, Ok(TextMiss), Ok(TextNameOnly), Ok(TextGoldIV),
     Ok(TextPeakOnly)}

\* the league's world: Al is GOLD IV on euw, Bo is PLATINUM IV on eune, and
\* every other lookup fails, each region in its own way
LeagueOutcome(player_name, region) ==
    CASE player_name = <<"A","l">> /\ region = euw  -> Ok(TextGoldIV)
      [] player_name = <<"B","o">> /\ region = eune -> Ok(TextPlatIV)
      [] region = eune -> NetworkError
      [] region = euw  -> ServerError
      [] region = tr   -> MalformedJson
      [] region = ru   -> EmptyContent
      [] region = na   -> Ok(<<>>)
      [] OTHER         -> Ok(TextFlexOnly)

\* requests.post(OPGG_MCP_URL, ...) for (game_name, tag, region) in world w
ServiceOutcomes(w, player_name, player_tag, region) ==
    IF w = "open" THEN OpenOutcomes ELSE {LeagueOutcome(player_name, region)}

\* accounts of the source sheet
Account(tournament_account, main_account) ==
    [tournament_account |-> tournament_account, main_account |-> main_account,
     role |-> "TOP"]

NoAccount == Account(<<>>, <<>>)
AL == Account(<<>>, <<"A","l","#","B","1">>)
BO == Account(<<"Z","e","d","#","T","1">>, <<"B","o"," ","#","e","u","n","e">>)
CY == Account(<<>>, <<"C","y","#","x"," ","(","w","e","s","t",")">>)

\* rosters of the league: the ranked players in the fill slots, in the main
\* slots, in both, a player no region knows, and nobody
Rosters ==
    {<<NoAccount, NoAccount, NoAccount, NoAccount, NoAccount, AL, BO>>,
     <<AL, NoAccount, NoAccount, NoAccount, NoAccount, NoAccount, NoAccount>>,
     <<BO, NoAccount, NoAccount, NoAccount, NoAccount, AL, NoAccount>>,
     <<CY, AL, NoAccount, NoAccount, NoAccount, NoAccount, NoAccount>>,
     <<NoAccount, NoAccount, NoAccount, NoAccount, NoAccount, NoAccount, NoAccount>>}

MaxTeams == 3

TeamNames == <<"T1", "T2", "T3", "T4", "T5", "T6">>

\* the data rows of the source sheet of a league run
LeagueRows ==
    UNION {{[r \in 1..n |-> [name |-> TeamNames[r], accounts |-> f[r]]] :
               f \in [1..n -> Rosters]} : n \in 0..MaxTeams}

\* main accounts of a single entry looked up in an open world
ProbeMainAccounts ==
    {<<"A","l","#","B","1">>,
     <<"A","l"," ","#","K","R"," ","(","e","u","w","e","s","t",")">>,
     <<"A","l","#","x"," ","(","b","r",")">>,
     <<"h","t","t","p","s",":","/","/","o","p",".","g","g","/","l","o","l","/","s","u","m","m","o","n","e","r","s","/","k","r","/","A","l","+","Z","-","K","R","1">>,
     <<"A","l">>,
     <<" "," ">>}

ProbeTournamentAccounts ==
    {<<>>,
     <<"Z","e","d"," ","#","T","1"," ","(","k","r",")">>,
     <<"h","t","t","p","s",":","/","/","o","p",".","g","g","/","l","o","l","/","s","u","m","m","o","n","e","r","s","/","t","r","/","Z","e","d","-","T","1">>}

\* the data rows of a run with one entry, in the last slot of one team
ProbeRows ==
    {<<[name |-> TeamNames[1],
        accounts |-> <<NoAccount, NoAccount, NoAccount, NoAccount, NoAccount, NoAccount,
                       Account(t, m)>>]>> :
        t \in ProbeTournamentAccounts, m \in ProbeMainAccounts}

\* main after read_teams: the teams as read, the first player's lookup ahead
Init ==
    /\ arg = <<>> /\ ret = <<>>
    /\ \E w \in {"league", "open"} :
          /\ world = w
          /\ \E rows \in (IF w = "league" THEN LeagueRows ELSE ProbeRows) :
                teams = read_teams(rows)
    /\ pc = IF teams = <<>> THEN "sort" ELSE "fetch_player"
    /\ ti = 1 /\ pi = 1
    /\ fp_name = <<>> /\ fp_tag = <<>> /\ regions = <<>> /\ ri = 0
    /\ queried = <<>> /\ calls = 0 /\ written = <<>>

\* fetch_player up to the lookup loop: the early returns for an empty field
\* and an identifier that does not parse, else the cleaned name, the region
\* search order and the first region
FetchPlayerStart ==
    /\ pc = "fetch_player"
    /\ calls' = calls + 1
    /\ LET player == teams[ti].players[pi]
           parsed == IF Contains(player.main_account, OPGG_HOST)
                     THEN parse_opgg_url(player.main_account)
                     ELSE parse_riot_id(player.main_account)
       IN  IF Strip(player.main_account) = <<>> \/ parsed.name = <<>> \/ parsed.tag = <<>>
           THEN /\ pc' = "fetched"
                /\ UNCHANGED <<teams, fp_name, fp_tag, regions, ri>>
           ELSE /\ teams' = [teams EXCEPT ![ti].players[pi].main_account =
                                parsed.name \o <<"#">> \o parsed.tag]
                /\ fp_name' = parsed.name
                /\ fp_tag' = parsed.tag
                /\ regions' = region_search_order(parsed.region_hint, parsed.tag)
                /\ ri' = 1
                /\ pc' = "lookup"
    /\ UNCHANGED <<arg, ret, world, ti, pi, queried, written>>

\* one turn of the lookup loop: the region is queried; no response or a miss
\* goes on to the next region, a hit fills the player in and returns
QueryRegion ==
    /\ pc = "lookup"
    /\ ri <= Len(regions)
    /\ \E outcome \in ServiceOutcomes(world, fp_name, fp_tag, regions[ri]) :
          LET region == regions[ri]
              resp   == fetch_from_opgg(outcome)
              data   == parse_opgg_response(resp.text)
          IN  /\ queried' = Append(queried, [region |-> region, resp |-> resp])
              /\ IF ~resp.ok
                 THEN /\ ri' = continue_loop(ri, Len(regions))
                      /\ UNCHANGED <<teams, pc>>
                 ELSE IF is_miss(data, fp_name, resp.text)
                      THEN /\ ri' = continue_loop(ri, Len(regions))
                           /\ UNCHANGED <<teams, pc>>
                      ELSE /\ teams' = [teams EXCEPT ![ti].players[pi] =
                                           populate(@, data, region, fp_name, fp_tag)]
                           /\ pc' = "fetched"
                           /\ UNCHANGED ri
    /\ UNCHANGED <<arg, ret, world, ti, pi, fp_name, fp_tag, regions, calls, written>>

\* the lookup loop ran out of regions: "Not found", the player as it was
NotFound ==
    /\ pc = "lookup"
    /\ ri > Len(regions)
    /\ pc' = "fetched"
    /\ UNCHANGED <<arg, ret, teams, world, ti, pi, fp_name, fp_tag, regions, ri, queried,
                   calls, written>>

\* main, the inner loop: after fetch_player the next player, or the scores
NextPlayer ==
    /\ pc = "fetched"
    /\ IF pi < Len(teams[ti].players)
       THEN pi' = pi + 1 /\ pc' = "fetch_player"
       ELSE pi' = pi /\ pc' = "scores"
    /\ fp_name' = <<>> /\ fp_tag' = <<>> /\ regions' = <<>> /\ ri' = 0 /\ queried' = <<>>
    /\ UNCHANGED <<arg, ret, teams, world, ti, calls, written>>

\* main, the outer loop: the two scores of the team, then the next team or
\* the sort
ScoreTeam ==
    /\ pc = "scores"
    /\ teams' = [teams EXCEPT
                    ![ti].regular_score = regular_score_of(teams[ti].players),
                    ![ti].total_score   = total_score_of(teams[ti].players)]
    /\ IF ti < Len(teams)
       THEN ti' = ti + 1 /\ pi' = 1 /\ pc' = "fetch_player"
       ELSE ti' = ti /\ pi' = pi /\ pc' = "sort"
    /\ UNCHANGED <<arg, ret, world, fp_name, fp_tag, regions, ri, queried, calls, written>>

\* main: teams.sort(...), and write_teams is called with the list
SortTeams ==
    /\ pc = "sort"
    /\ teams' = sort_teams(teams)
    /\ pc' = "write"
    /\ UNCHANGED <<arg, ret, world, ti, pi, fp_name, fp_tag, regions, ri, queried, calls,
                   written>>

\* write_teams, one turn of its loop: worksheet.batch_update, whose exception
\* nothing catches, then the formula update, whose exception is printed as a
\* warning
WriteTeam ==
    /\ pc = "write"
    /\ Len(written) < Len(teams)
    /\ \E values_rejected \in BOOLEAN, formulas_rejected \in BOOLEAN :
          LET team == teams[Len(written) + 1]
          IN  IF values_rejected
              THEN /\ written' = Append(written, [row |-> team.row, values |-> "raised",
                                                  formulas |-> "not attempted"])
                   /\ pc' = "crashed"
              ELSE /\ written' = Append(written,
                                        [row |-> team.row, values |-> "written",
                                         formulas |-> IF formulas_rejected
                                                      THEN "warning" ELSE "written"])
                   /\ pc' = pc
    /\ UNCHANGED <<arg, ret, teams, world, ti, pi, fp_name, fp_tag, regions, ri, queried,
                   calls>>

\* write_teams returns and main prints "Done!"
WriteDone ==
    /\ pc = "write"
    /\ Len(written) = Len(teams)
    /\ pc' = "done"
    /\ UNCHANGED <<arg, ret, teams, world, ti, pi, fp_name, fp_tag, regions, ri, queried,
                   calls, written>>

Next ==
    \/ FetchPlayerStart
    \/ QueryRegion
    \/ NotFound
    \/ NextPlayer
    \/ ScoreTeam
    \/ SortTeams
    \/ WriteTeam
    \/ WriteDone

Spec == Init /\ [][Next]_vars

(***************************************************************************)
(* Claims on the rank model                                                *)
(***************************************************************************)
Compared == pc = "ret" /\ arg.fn = "compare_ranks"

\* C1: compare_ranks is a strict total preorder over the formatted rank
\* strings: compare_ranks(a, b) = -compare_ranks(b, a); a >= b and b >= c
\* imply a >= c; compare_ranks(a, b) = 0 only when a = b; UNRANKED is less
\* than every other rank and equal only to itself.
C1_CompareRanksTotalPreorder ==
    Compared =>
        /\ ret.ab \in {-1, 0, 1}
        /\ ret.ab = -ret.ba
        /\ (ret.ab >= 0 /\ ret.bc >= 0) => ret.ac >= 0
        /\ ret.ab = 0 => arg.a = arg.b
        /\ arg.a = arg.b => ret.ab = 0
        /\ (arg.a = UNRANKED /\ arg.b # UNRANKED) => ret.ab < 0
        /\ (arg.a = UNRANKED /\ ret.ab = 0) => arg.b = UNRANKED

\* C1 witness: GOLD IV < GOLD III < MASTER has been compared, all three ways
C1_Witness ==
    /\ Compared
    /\ arg.a = GOLD \o <<" ">> \o DivIV
    /\ arg.b = GOLD \o <<" ">> \o DivIII
    /\ arg.c = MASTER
    /\ ret.ab = -1 /\ ret.bc = -1 /\ ret.ac = -1 /\ ret.ba = 1

Calculated == pc = "ret" /\ arg.fn = "calculate_lp"

\* the claimed base of the i-th non-apex tier (IRON = 0 ... DIAMOND = 6)
ClaimedBase(i, division) ==
    400 * i + (CASE division = DivIV  -> 0
                 [] division = DivIII -> 100
                 [] division = DivII  -> 200
                 [] division = DivI   -> 300)

\* C2: calculate_lp(tier, division, lp) is base(tier, division) + lp, with
\* base 400*i + 0/100/200/300 (IV/III/II/I) for the i-th non-apex tier and
\* 2800, 3000, 3300 for MASTER, GRANDMASTER, CHALLENGER whatever the
\* division; an unranked, empty or unrecognized tier gives 0 whatever lp is.
\* (Tier names are recognized whatever their case, UNRANKED included.)
C2_CalculateLpIsBasePlusLp ==
    Calculated =>
        LET t == Upper(arg.tier)
            i == IndexOf(TIER_ORDER, t) - 1
        IN  /\ (InList(TIER_ORDER, t) /\ i <= 6 /\ arg.division \in Divisions)
                   => ret = ClaimedBase(i, arg.division) + arg.lp
            /\ t = MASTER      => ret = 2800 + arg.lp
            /\ t = GRANDMASTER => ret = 3000 + arg.lp
            /\ t = CHALLENGER  => ret = 3300 + arg.lp
            /\ ~InList(TIER_ORDER, t) => ret = 0

\* C2 witness: GOLD II with 99 LP was computed as 1499, an unrecognized tier
\* being among the inputs of the same run
C2_Witness ==
    /\ Calculated
    /\ arg.tier = GOLD /\ arg.division = DivII /\ arg.lp = 99
    /\ ret = 1499

Totalled == pc = "ret" /\ arg.fn = "rank_total_lp"

IsApexRank(r) == InList(ApexTiers, r)

\* the league points the original claim allows a rank to carry
ClaimedLpRange(r, lp) == IF IsApexRank(r) THEN lp >= 0 ELSE lp \in 0..99

\* the league points of the lower rank under which the order is kept: an apex
\* rank's points must not exceed the gap to the next apex base
AmendedLowerLpRange(r, lp) ==
    CASE r = MASTER      -> lp \in 0..200
      [] r = GRANDMASTER -> lp \in 0..300
      [] OTHER           -> ClaimedLpRange(r, lp)

\* C3 as stated: for concrete ranks r1 < r2 and any league points (0..99 for a
\* non-apex rank, any non-negative integer for an apex rank),
\* total(r1, lp1) <= total(r2, lp2).
C3_Original_TotalMonotone ==
    (Totalled /\ ret.cmp < 0
        /\ ClaimedLpRange(arg.r1, arg.lp1) /\ ClaimedLpRange(arg.r2, arg.lp2))
    => ret.t1 <= ret.t2

\* C3 amended: for concrete ranks r1 < r2, total(r1, lp1) <= total(r2, lp2)
\* when lp1 is in 0..99 for a non-apex r1, in 0..200 for MASTER and in 0..300
\* for GRANDMASTER, and lp2 is in 0..99 for a non-apex r2 and any non-negative
\* integer for an apex r2; and total(GOLD IV, 0) < total(GOLD III, 0) <
\* total(GOLD I, 99) < total(PLATINUM IV, 0).
C3_TotalMonotoneWithinGaps ==
    /\ (Totalled /\ ret.cmp < 0
           /\ AmendedLowerLpRange(arg.r1, arg.lp1) /\ ClaimedLpRange(arg.r2, arg.lp2))
       => ret.t1 <= ret.t2
    /\ (Totalled /\ arg.r1 = GOLD \o <<" ">> \o DivIV /\ arg.lp1 = 0
                 /\ arg.r2 = GOLD \o <<" ">> \o DivIII /\ arg.lp2 = 0)
       => ret.t1 < ret.t2
    /\ (Totalled /\ arg.r1 = GOLD \o <<" ">> \o DivIII /\ arg.lp1 = 0
                 /\ arg.r2 = GOLD \o <<" ">> \o DivI /\ arg.lp2 = 99)
       => ret.t1 < ret.t2
    /\ (Totalled /\ arg.r1 = GOLD \o <<" ">> \o DivI /\ arg.lp1 = 99
                 /\ arg.r2 = PLATINUM \o <<" ">> \o DivIV /\ arg.lp2 = 0)
       => ret.t1 < ret.t2

\* C3 witness: DIAMOND I at 99 LP is totalled just below MASTER at 0 LP, and
\* the lower apex rank at the edge of its gap meets the next base
C3_Witness ==
    /\ Totalled
    /\ arg.r1 = MASTER /\ arg.lp1 = 200
    /\ arg.r2 = GRANDMASTER /\ arg.lp2 = 0
    /\ ret.cmp = -1 /\ ret.t1 = 3000 /\ ret.t2 = 3000

(***************************************************************************)
(* Claims on the response parser                                           *)
(***************************************************************************)
Parsed == pc = "ret" /\ arg.fn = "parse_opgg_response"

\* the rank observations of a text: the current rank (when there is one) and
\* every top-tier and historical candidate
Observations(text, current) ==
    (IF current # UNRANKED THEN {current} ELSE {})
    \cup {format_rank(text[i].tier, div_roman(text[i].div)) :
             i \in {j \in DOMAIN text : text[j].kind \in {"RankEntrie1", "PreviousSeason"}}}

SILVER_II == SILVER \o <<" ">> \o DivII
GOLD_III  == GOLD \o <<" ">> \o DivIII

\* C4: the peak_rank parse_opgg_response returns is the maximum under
\* compare_ranks of the current rank and all top-tier and historical
\* candidates: it is one of the observations (UNRANKED when there are none),
\* no observation compares greater, and it compares >= the current rank;
\* current SILVER II with historical GOLD III and SILVER I gives GOLD III.
C4_PeakIsMaximum ==
    Parsed =>
        LET obs == Observations(arg.text, ret.current_rank)
        IN  /\ ret.peak_rank \in obs \/ (obs = {} /\ ret.peak_rank = UNRANKED)
            /\ \A o \in obs : compare_ranks(o, ret.peak_rank) <= 0
            /\ compare_ranks(ret.peak_rank, ret.current_rank) >= 0
            /\ arg.text = <<LeagueStat(SOLORANKED, SILVER, 2, 38),
                            PreviousSeason(GOLD, 3), PreviousSeason(SILVER, 1)>>
                   => (ret.current_rank = SILVER_II /\ ret.peak_rank = GOLD_III)

\* C4 witness: the example's response was parsed, the peak coming from the
\* first historical candidate and not from the last one
C4_Witness ==
    /\ Parsed
    /\ arg.text = <<LeagueStat(SOLORANKED, SILVER, 2, 38),
                    PreviousSeason(GOLD, 3), PreviousSeason(SILVER, 1)>>
    /\ ret.current_rank = SILVER_II
    /\ ret.peak_rank = GOLD_III

(***************************************************************************)
(* Claims on the identity parser and the region search order               *)
(***************************************************************************)
Ordered == pc = "ret" /\ arg.fn = "region_search_order"

\* the position of region r in the search order ret
Position(r) == IndexOf(ret, r)

\* what both readings of C7 say of the order ret, hintFirst telling whether
\* the hint takes the first place
RegionOrderAsClaimed(hintFirst) ==
    LET hint  == REGION_ALIASES_get(arg.region_hint)
        tag   == Lower(arg.tag)
        tagIn == InList(REGIONS, tag)
        lead  == (IF hintFirst THEN {hint} ELSE {}) \cup (IF tagIn THEN {tag} ELSE {})
    IN  \* no region twice, every region of the fixed list, and nothing else
        /\ \A i, j \in DOMAIN ret : ret[i] = ret[j] => i = j
        /\ \A k \in DOMAIN REGIONS : InList(ret, REGIONS[k])
        /\ \A i \in DOMAIN ret : ret[i] \in lead \/ InList(REGIONS, ret[i])
        \* the hint first, the tag's region next, then the fixed list in its order
        /\ hintFirst => ret[1] = hint
        /\ (tagIn /\ ~hintFirst) => ret[1] = tag
        /\ (tagIn /\ hintFirst /\ tag # hint) => ret[2] = tag
        /\ \A k, l \in DOMAIN REGIONS :
               (k < l /\ REGIONS[k] \notin lead /\ REGIONS[l] \notin lead)
                   => /\ Position(REGIONS[k]) < Position(REGIONS[l])
                      /\ Position(REGIONS[k]) > Cardinality(lead)

\* C7 as stated: the search order is the alias-normalized hint first if it is
\* present and valid (one of the known regions), then the lower-cased tag if
\* it is a known region, then the fixed list, duplicates removed.
C7_Original_ValidHintFirst ==
    Ordered =>
        RegionOrderAsClaimed(arg.region_hint # <<>>
                             /\ InList(REGIONS, REGION_ALIASES_get(arg.region_hint)))

\* C7 amended: the search order is the alias-normalized hint first if it is
\* present (not empty), whether or not it is one of the known regions, then
\* the lower-cased tag if it is a known region, then the fixed list
\* [eune, euw, tr, ru, na, kr], duplicates removed keeping the first
\* occurrence; no region occurs twice and every region of the fixed list occurs.
C7_RegionOrderHintTagDefaults ==
    /\ REGIONS = <<eune, euw, tr, ru, na, kr>>
    /\ Ordered => RegionOrderAsClaimed(arg.region_hint # <<>>)
    /\ (Ordered /\ arg.region_hint = <<"e","u","w","e","s","t">> /\ arg.tag = <<"K","R">>)
           => ret = <<euw, kr, eune, tr, ru, na>>

\* C7 witness: the hint br, no known region, was put first, before the tag's
\* region tr and the rest of the fixed list
C7_Witness ==
    /\ Ordered
    /\ arg.region_hint = <<"b","r">>
    /\ arg.tag = tr
    /\ ret = <<<<"b","r">>, tr, eune, euw, ru, na, kr>>

RiotParsed == pc = "ret" /\ arg.fn = "parse_riot_id"

\* C10: when the identifier (its trailing region hint removed) holds a "#",
\* the first "#" splits it: the name is the trimmed text before the first
\* "#" and holds no "#", the tag is the trimmed text after it, later "#"
\* included, also when a later "#" follows a space ("A#B #C").
C10_FirstHashSplits ==
    (RiotParsed /\ Contains(arg.body, <<"#">>)) =>
        LET first == Least(Occurrences(arg.body, <<"#">>))
        IN  /\ ret.name = Strip(SubSeq(arg.body, 1, first - 1))
            /\ ~Contains(ret.name, <<"#">>)
            /\ ret.tag = Strip(SubSeq(arg.body, first + 1, Len(arg.body)))

(***************************************************************************)
(* Claims on the team scores and the order of the teams                    *)
(***************************************************************************)
\* the teams whose scores main has computed
ScoredTeams ==
    IF pc \in {"sort", "write", "done", "crashed"} THEN 1..Len(teams) ELSE 1..(ti - 1)

\* C5: every team whose scores were computed has regular_score equal to the
\* sum of total_lp of its first 5 players and total_score equal to the sum of
\* total_lp of all 7 players; a team whose only ranked players are the two
\* fill players, with 1200 and 1600 total LP, has regular_score 0 and
\* total_score 2800.
C5_TeamScores ==
    \A k \in ScoredTeams :
        LET p == teams[k].players
            first5 == p[1].total_lp + p[2].total_lp + p[3].total_lp + p[4].total_lp
                      + p[5].total_lp
        IN  /\ Len(p) = 7
            /\ teams[k].regular_score = first5
            /\ teams[k].total_score = first5 + p[6].total_lp + p[7].total_lp
            /\ (first5 = 0 /\ p[6].total_lp = 1200 /\ p[7].total_lp = 1600)
                   => (teams[k].regular_score = 0 /\ teams[k].total_score = 2800)

C5_Witness ==
    \E k \in ScoredTeams :
        LET p == teams[k].players
        IN  /\ \A i \in 1..5 : p[i].current_rank = UNRANKED /\ p[i].total_lp = 0
            /\ p[6].total_lp = 1200 /\ p[7].total_lp = 1600
            /\ teams[k].regular_score = 0 /\ teams[k].total_score = 2800

\* the one-to-one maps of the places of a list of n teams
Reorderings(n) ==
    {f \in [1..n -> 1..n] : \A i, j \in 1..n : f[i] = f[j] => i = j}

\* C6: the step that sorts the teams and hands them to the writer takes the
\* teams as read, in the order of the source rows, to a permutation of them
\* that is ordered by regular_score descending and in which any two teams
\* with equal regular_score keep their relative order.
C6_StableDescendingSort ==
    [][pc = "sort" =>
          /\ pc' = "write"
          /\ \A k \in 1..Len(teams) : teams[k].row = k
          /\ Len(teams') = Len(teams)
          /\ \E f \in Reorderings(Len(teams)) :
                /\ \A i \in 1..Len(teams) : teams'[i] = teams[f[i]]
                /\ \A i, j \in 1..Len(teams) :
                      i < j =>
                          /\ teams'[i].regular_score >= teams'[j].regular_score
                          /\ teams'[i].regular_score = teams'[j].regular_score
                                 => f[i] < f[j]]_vars

C6_Witness ==
    /\ pc = "write"
    /\ Len(teams) = 3
    /\ teams[1].row = 3 /\ teams[2].row = 1 /\ teams[3].row = 2
    /\ teams[1].regular_score > teams[2].regular_score
    /\ teams[2].regular_score = teams[3].regular_score
    /\ teams[2].regular_score > 0

(***************************************************************************)
(* Claims on the lookup loop of fetch_player                               *)
(***************************************************************************)
\* a hit as the specification words it: a response from which a concrete
\* rank was extracted, or whose raw text contains the name, whatever the case
IsHit(resp, player_name) ==
    /\ resp.ok
    /\ LET data == parse_opgg_response(resp.text)
       IN  \/ data.current_rank # UNRANKED
           \/ data.peak_rank # UNRANKED
           \/ Contains(Lower(TextChars(resp.text)), Lower(player_name))

NoHitYet == \A k \in 1..Len(queried) : ~IsHit(queried[k].resp, fp_name)

\* C8: the regions are queried at most once each, in search order; no region
\* is queried after a hit, every region queried before a hit was not a hit,
\* and after the hit fetch_player has returned with the player's region,
\* current rank, current LP and peak rank those of the hit.
C8_StopsAtFirstHit ==
    /\ Len(queried) <= Len(regions)
    /\ \A j, k \in 1..Len(regions) : regions[j] = regions[k] => j = k
    /\ \A k \in 1..Len(queried) : queried[k].region = regions[k]
    /\ \A k \in 1..(Len(queried) - 1) : ~IsHit(queried[k].resp, fp_name)
    /\ pc = "lookup" => NoHitYet
    /\ (queried # <<>> /\ IsHit(queried[Len(queried)].resp, fp_name)) =>
           LET hit    == queried[Len(queried)]
               data   == parse_opgg_response(hit.resp.text)
               player == teams[ti].players[pi]
           IN  /\ pc = "fetched"
               /\ player.region = hit.region
               /\ player.current_rank = data.current_rank
               /\ player.current_lp = data.current_lp
               /\ player.peak_rank = data.peak_rank

\* a failed lookup, a response that is no hit, then a hit in a third region
\* with regions left over
C8_Witness ==
    /\ pc = "fetched"
    /\ Len(queried) = 3
    /\ Len(regions) > 3
    /\ ~queried[1].resp.ok
    /\ queried[2].resp.ok
    /\ IsHit(queried[3].resp, fp_name)
    /\ teams[ti].players[pi].region = regions[3]
    /\ teams[ti].players[pi].current_rank = <<"G","O","L","D"," ","I","V">>

\* the players main has called fetch_player for, by the place it is at
PlayersFetched ==
    CASE pc = "fetch_player" -> 7 * (ti - 1) + pi - 1
      [] pc \in {"lookup", "fetched", "scores"} -> 7 * (ti - 1) + pi
      [] OTHER -> 7 * Len(teams)

\* C9: a lookup that gives None or no hit is followed by the next candidate
\* region; when no region gave a hit fetch_player returns after all of them,
\* with the player UNRANKED, 0 LP, and region and profile URLs empty; and
\* main calls fetch_player for every player of every team.
C9_FailureFallsThrough ==
    /\ pc = "lookup" => ri = Len(queried) + 1
    /\ (pc = "fetched" /\ NoHitYet) =>
           LET player == teams[ti].players[pi]
           IN  /\ Len(queried) = Len(regions)
               /\ player.current_rank = UNRANKED
               /\ player.peak_rank = UNRANKED
               /\ player.current_lp = 0
               /\ player.total_lp = 0
               /\ player.region = <<>>
               /\ player.opgg_main = <<>>
               /\ player.opgg_tournament = <<>>
    /\ calls = PlayersFetched
    /\ pc \in {"fetch_player", "lookup", "fetched", "scores"} =>
           (ti \in 1..Len(teams) /\ pi \in 1..7)

\* a player no region knows, every lookup failing, is left with the defaults,
\* and the next player of the team is found after one more failed lookup
C9_Witness ==
    /\ pc = "fetched"
    /\ pi = 2
    /\ teams[ti].players[1].main_account = <<"C","y","#","x">>
    /\ teams[ti].players[1].current_rank = UNRANKED
    /\ teams[ti].players[1].region = <<>>
    /\ Len(queried) = 2
    /\ queried[1].resp = None
    /\ IsHit(queried[2].resp, fp_name)
    /\ teams[ti].players[2].total_lp = 1200

(***************************************************************************)
(* Claims on the writer                                                    *)
(***************************************************************************)
\* the writes of team k that the sheet rejected
WriteFailed(k) == written[k].values = "raised" \/ written[k].formulas = "warning"

\* C11: a write of one team that the sheet rejects, the value batch write or
\* the formula update, does not abort write_teams: the writer is still at
\* work or has returned, and when it has returned the writes of every team
\* were attempted.
C11_WriteFailureDoesNotAbort ==
    /\ \A k \in 1..Len(written) : WriteFailed(k) => pc \in {"write", "done"}
    /\ pc \notin {"write", "sort", "scores", "fetched", "lookup", "fetch_player"}
           => Len(written) = Len(teams)

(***************************************************************************)
(* Claims on the total of a player                                         *)
(***************************************************************************)
\* the players fetch_player has returned for
Fetched(k, i) ==
    \/ k \in ScoredTeams
    \/ k = ti /\ pc \in {"fetch_player", "lookup"} /\ i < pi
    \/ k = ti /\ pc \in {"fetched", "scores"} /\ i <= pi

\* the total the current rank alone gives
TotalOfCurrentRank(player) ==
    IF player.current_rank = UNRANKED
    THEN 0
    ELSE LET parts == Split(player.current_rank)
         IN  calculate_lp(parts[1], IF Len(parts) > 1 THEN parts[2] ELSE DivI,
                          player.current_lp)

\* C12: after fetch_player a player's total_lp is calculate_lp of the current
\* tier, division and LP when current_rank is not UNRANKED and 0 when it is,
\* whatever the peak_rank; and the team scores are sums of these totals.
C12_TotalFromCurrentRankOnly ==
    \A k \in 1..Len(teams) :
        /\ \A i \in 1..Len(teams[k].players) :
              Fetched(k, i) =>
                  teams[k].players[i].total_lp = TotalOfCurrentRank(teams[k].players[i])
        /\ k \in ScoredTeams =>
              teams[k].total_score =
                  sum_total_lp([i \in 1..Len(teams[k].players) |->
                                   [total_lp |-> TotalOfCurrentRank(teams[k].players[i])]])

\* a player found with a peak rank and no current rank, in a scored team
C12_Witness ==
    \E k \in ScoredTeams :
        \E i \in 1..Len(teams[k].players) :
            /\ teams[k].players[i].region # <<>>
            /\ teams[k].players[i].current_rank = UNRANKED
            /\ teams[k].players[i].peak_rank = <<"S","I","L","V","E","R"," ","I">>
            /\ teams[k].players[i].total_lp = 0
            /\ teams[k].total_score = 0

====
